---- MODULE Spec2Model ----
(***************************************************************************)
(* gitf: a git-flow helper (src/index.js).  run(command, args..., cb)      *)
(* validates the arguments, renders a shell command from the action's      *)
(* template (resolving the next version from the tag history and writing   *)
(* package.json on the way) and executes it.                               *)
(*                                                                         *)
(* Strings are sequences of one-character strings, so that indexOf,        *)
(* lastIndexOf, substring, template concatenation and semver parsing and   *)
(* formatting are computed as the code computes them.  The JavaScript      *)
(* values undefined and null are the one-element sequences Undefined and   *)
(* Null, which are no character sequence.                                  *)
(***************************************************************************)
EXTENDS Integers, Sequences, FiniteSets, TLC

VARIABLES
  branches,    \* git: branch name -> set of commits the branch contains
  tags,        \* git: tag name -> commit the tag points at
  HEAD,        \* git: the branch that is checked out
  pkgVersion,  \* the "version" field of package.json in the working directory
  nextCommit,  \* git: the next fresh commit id
  calls,       \* one record per caller: the run() call it has in flight
  runs,        \* the number of run() calls made so far
  query,       \* a direct getLastVersion(release, cb) call of the API
  ctor         \* the constructor call: new Gitf(options, cb)

vars == <<branches, tags, HEAD, pkgVersion, nextCommit, calls, runs, query, ctor>>

-----------------------------------------------------------------------------
(* Bounds of the model *)

\* The number of run() calls a behaviour makes.
MaxRuns == 3
\* The longest tag list a direct getLastVersion call is tried on.
MaxTagList == 3
\* The number of run() calls two callers make between them.
MaxConcRuns == 2

-----------------------------------------------------------------------------
(* JavaScript strings *)

Undefined == <<"undefined">>
Null == <<"null">>
Empty == <<>>

\* A value is falsy when it is undefined, null or the empty string.
Truthy(s) == s # Undefined /\ s # Null /\ s # Empty

IsString(s) == s # Undefined /\ s # Null

Digits == <<"0", "1", "2", "3", "4", "5", "6", "7", "8", "9">>

IsDigit(c) == \E i \in 1..10 : Digits[i] = c

DigitVal(c) == (CHOOSE i \in 1..10 : Digits[i] = c) - 1

\* Number to decimal string, as template interpolation and semver format it.
RECURSIVE ToStr(_)
ToStr(n) == IF n < 10 THEN <<Digits[n + 1]>>
            ELSE ToStr(n \div 10) \o <<Digits[(n % 10) + 1]>>

\* Decimal string to number; the string holds digits only.
RECURSIVE ParseNat(_)
ParseNat(s) == IF Len(s) = 0 THEN 0
               ELSE 10 * ParseNat(SubSeq(s, 1, Len(s) - 1)) + DigitVal(s[Len(s)])

\* String.prototype.indexOf(pat): 0-based index of the first occurrence, or -1.
IndexOf(s, pat) ==
  LET hits == {i \in 1..(Len(s) - Len(pat) + 1) : SubSeq(s, i, i + Len(pat) - 1) = pat}
  IN IF hits = {} THEN -1
     ELSE (CHOOSE i \in hits : \A j \in hits : i <= j) - 1

\* String.prototype.lastIndexOf(pat): 0-based index of the last occurrence, or -1.
LastIndexOf(s, pat) ==
  LET hits == {i \in 1..(Len(s) - Len(pat) + 1) : SubSeq(s, i, i + Len(pat) - 1) = pat}
  IN IF hits = {} THEN -1
     ELSE (CHOOSE i \in hits : \A j \in hits : i >= j) - 1

\* s.substring(0, end) and s.substr(0, end): a negative end gives ''.
Substring0(s, end) == IF end <= 0 THEN Empty
                      ELSE SubSeq(s, 1, IF end > Len(s) THEN Len(s) ELSE end)

\* s.split(sep) for a one-character separator.
RECURSIVE Split(_, _)
Split(s, sep) ==
  LET i == IndexOf(s, <<sep>>)
  IN IF i = -1 THEN <<s>>
     ELSE <<Substring0(s, i)>> \o Split(SubSeq(s, i + 2, Len(s)), sep)

-----------------------------------------------------------------------------
(* The semver package, as index.js uses it: valid, gt, inc *)

\* The order of the characters of prerelease identifiers (ASCII order).
Alphabet == <<"-", "0", "1", "2", "3", "4", "5", "6", "7", "8", "9",
              "a", "b", "c", "e", "f", "o", "r", "t", "v", "x">>

CharOrd(c) == CHOOSE i \in 1..Len(Alphabet) : Alphabet[i] = c

IsIdentChar(c) == \E i \in 1..Len(Alphabet) : Alphabet[i] = c

AllDigits(s) == Len(s) > 0 /\ \A i \in 1..Len(s) : IsDigit(s[i])

\* A numeric identifier: digits without a leading zero.
IsNumericId(s) == AllDigits(s) /\ (Len(s) = 1 \/ s[1] # "0")

\* A prerelease identifier: numeric, or alphanumerics and hyphens with a non-digit.
IsPrereleaseId(s) ==
  /\ Len(s) > 0
  /\ \A i \in 1..Len(s) : IsIdentChar(s[i])
  /\ (AllDigits(s) => IsNumericId(s))

\* new SemVer(v): the parsed version, ok = FALSE when v is no strict semver.
SemverParse(v) ==
  LET dash == IF IsString(v) THEN IndexOf(v, <<"-">>) ELSE -1
      core == IF dash = -1 THEN v ELSE Substring0(v, dash)
      pre  == IF dash = -1 THEN Empty ELSE SubSeq(v, dash + 2, Len(v))
      nums == Split(core, ".")
      ids  == IF dash = -1 THEN <<>> ELSE Split(pre, ".")
      ok   == /\ IsString(v)
              /\ Len(nums) = 3
              /\ \A i \in 1..3 : IsNumericId(nums[i])
              /\ \A i \in 1..Len(ids) : IsPrereleaseId(ids[i])
  IN IF ok
     THEN [ok |-> TRUE, major |-> ParseNat(nums[1]), minor |-> ParseNat(nums[2]),
           patch |-> ParseNat(nums[3]), prerelease |-> ids]
     ELSE [ok |-> FALSE, major |-> 0, minor |-> 0, patch |-> 0, prerelease |-> <<>>]

\* semver.valid(v), as a truth value.
SemverValid(v) == SemverParse(v).ok

\* Lexical order of two identifiers.
RECURSIVE LexLess(_, _)
LexLess(a, b) ==
  IF Len(b) = 0 THEN FALSE
  ELSE IF Len(a) = 0 THEN TRUE
  ELSE IF a[1] # b[1] THEN CharOrd(a[1]) < CharOrd(b[1])
  ELSE LexLess(Tail(a), Tail(b))

\* compareIdentifiers(a, b) > 0
IdGreater(a, b) ==
  IF AllDigits(a) /\ AllDigits(b) THEN ParseNat(a) > ParseNat(b)
  ELSE IF AllDigits(a) THEN FALSE
  ELSE IF AllDigits(b) THEN TRUE
  ELSE LexLess(b, a)

\* comparePre(a, b) > 0: no prerelease is greater than any prerelease.
RECURSIVE PreGreater(_, _)
PreGreater(a, b) ==
  IF Len(a) = 0 /\ Len(b) = 0 THEN FALSE
  ELSE IF Len(a) = 0 THEN TRUE
  ELSE IF Len(b) = 0 THEN FALSE
  ELSE LET Walk[i \in 1..(Len(a) + 1)] ==
             IF i > Len(a) THEN FALSE
             ELSE IF i > Len(b) THEN TRUE
             ELSE IF a[i] = b[i] THEN Walk[i + 1]
             ELSE IdGreater(a[i], b[i])
       IN Walk[1]

\* semver.gt(a, b) for two valid versions.
SemverGt(a, b) ==
  LET x == SemverParse(a)
      y == SemverParse(b)
  IN IF x.major # y.major THEN x.major > y.major
     ELSE IF x.minor # y.minor THEN x.minor > y.minor
     ELSE IF x.patch # y.patch THEN x.patch > y.patch
     ELSE PreGreater(x.prerelease, y.prerelease)

FormatVersion(major, minor, patch) ==
  ToStr(major) \o <<".">> \o ToStr(minor) \o <<".">> \o ToStr(patch)

\* semver.inc(version, level): null when version is no valid semver.
SemverInc(version, level) ==
  LET x == SemverParse(version)
      hasPre == Len(x.prerelease) > 0
  IN IF ~x.ok THEN Null
     ELSE IF level = "major"
       THEN FormatVersion(
              IF x.minor # 0 \/ x.patch # 0 \/ ~hasPre THEN x.major + 1 ELSE x.major,
              0, 0)
     ELSE IF level = "minor"
       THEN FormatVersion(
              x.major,
              IF x.patch # 0 \/ ~hasPre THEN x.minor + 1 ELSE x.minor,
              0)
     ELSE FormatVersion(x.major, x.minor,
                        IF ~hasPre THEN x.patch + 1 ELSE x.patch)

-----------------------------------------------------------------------------
(* getLastVersion *)

\* The loop body without the removal of the -rc suffix.
LastVersionStepKeepRc(lastVersion, tag, release) ==
  LET version == tag
      skipped == /\ Truthy(release)
                 /\ Substring0(version, LastIndexOf(version, <<".">>)) # release
      first   == IF Truthy(lastVersion) THEN lastVersion ELSE version
  IN IF skipped THEN lastVersion
     ELSE IF SemverValid(version) /\ SemverValid(first) /\ SemverGt(version, first)
       THEN version
       ELSE first

\* One pass of the loop body over resp.all[i]: the next value of lastVersion.
LastVersionStep(lastVersion, tag, release) ==
  LET version == IF IndexOf(tag, <<"-", "r", "c">>) # -1
                 THEN Substring0(tag, LastIndexOf(tag, <<"-">>))
                 ELSE tag
      skipped == /\ Truthy(release)
                 /\ Substring0(version, LastIndexOf(version, <<".">>)) # release
      first   == IF Truthy(lastVersion) THEN lastVersion ELSE version
  IN IF skipped THEN lastVersion
     ELSE IF SemverValid(version) /\ SemverValid(first) /\ SemverGt(version, first)
       THEN version
       ELSE first

\* The loop over resp.all.
RECURSIVE LastVersionLoop(_, _, _)
LastVersionLoop(all, release, lastVersion) ==
  IF Len(all) = 0 THEN lastVersion
  ELSE LastVersionLoop(Tail(all), release,
                       LastVersionStep(lastVersion, Head(all), release))

\* The fallback after the loop: the value handed to cb.
LastVersionFallback(lastVersion, release, pkg) ==
  IF ~Truthy(release) /\ ~Truthy(lastVersion) THEN pkg ELSE lastVersion

\* The value getLastVersion hands to its callback when git.tags answers resp.
GetLastVersion(all, release, pkg) ==
  LastVersionFallback(LastVersionLoop(all, release, Undefined), release, pkg)

-----------------------------------------------------------------------------
(* Names *)

\* "function": the type tag of a callback among the parameters of a call.
FN == <<"function">>

\* typeof x === 'string'
TypeofString(x) == x # Undefined /\ x # Null /\ x # FN

\* `${x}` inside a template string.
Interp(x) ==
  IF x = Null THEN <<"n", "u", "l", "l">>
  ELSE IF x = Undefined THEN <<"u", "n", "d", "e", "f", "i", "n", "e", "d">>
  ELSE x

DEVELOP == <<"d", "e", "v", "e", "l", "o", "p">>
MASTER == <<"m", "a", "s", "t", "e", "r">>
FEATURE == <<"f", "e", "a", "t", "u", "r", "e", "-">>
RELEASE == <<"r", "e", "l", "e", "a", "s", "e", "-">>
HOTFIX == <<"h", "o", "t", "f", "i", "x", "-">>
RC1 == <<"-", "r", "c", ".", "1">>

\* The i-th actual parameter of a call, undefined when there are fewer.
Param(params, i) == IF i <= Len(params) THEN params[i] ELSE Undefined

HasPrefix(s, prefix) == Len(s) >= Len(prefix) /\ SubSeq(s, 1, Len(prefix)) = prefix

Max(S) == CHOOSE x \in S : \A y \in S : x >= y

\* Every ordering of a finite set, as a sequence.
RECURSIVE Orders(_)
Orders(S) == IF S = {} THEN {<<>>}
             ELSE UNION {{<<x>> \o o : o \in Orders(S \ {x})} : x \in S}

-----------------------------------------------------------------------------
(* The command table: validators *)

\* What a validator does with its parameters: the callback it holds, and either
\* the verdict it hands over at once ("pass" or a failure message) or the branch
\* whose existence it asks git.branch about.
Verdict(cb, verdict) == [cb |-> cb, verdict |-> verdict, branch |-> Empty]
AskBranch(cb, branch) == [cb |-> cb, verdict |-> "branch", branch |-> branch]

ValidateCreateFeature(params) ==
  LET name == Param(params, 1)
      cb   == Param(params, 2)
  IN IF TypeofString(name) THEN Verdict(cb, "pass") ELSE Verdict(cb, "missing name")

ValidateIncorporateFeature(params) ==
  LET name == Param(params, 1)
      cb   == Param(params, 2)
  IN IF TypeofString(name) THEN AskBranch(cb, FEATURE \o name)
     ELSE Verdict(cb, "missing name")

ValidateCreateRelease(params) ==
  LET level == Param(params, 1)
      cb    == Param(params, 2)
  IN Verdict(IF cb # Undefined /\ cb # Empty THEN cb ELSE level, "pass")

ValidateFinishRelease(params) ==
  LET version == Param(params, 1)
      cb      == Param(params, 2)
  IN IF TypeofString(version) THEN AskBranch(cb, RELEASE \o version)
     ELSE Verdict(cb, "missing version")

ValidateCreateHotfix(params) ==
  LET release == Param(params, 1)
      cb      == Param(params, 2)
  IN IF TypeofString(release) THEN AskBranch(cb, RELEASE \o release)
     ELSE Verdict(cb, "missing release branch name")

ValidateFinishHotfix(params) ==
  LET version == Param(params, 1)
      cb      == Param(params, 2)
  IN IF TypeofString(version) THEN AskBranch(cb, HOTFIX \o version)
     ELSE Verdict(cb, "missing hotfix branch name")

ValidateRemovePath(params) ==
  LET path   == Param(params, 1)
      branch == Param(params, 2)
      cb     == Param(params, 3)
  IN IF TypeofString(path) /\ TypeofString(branch) THEN Verdict(cb, "pass")
     ELSE Verdict(cb, "missing path or branch")

Commands == {"create-feature", "incorporate-feature", "create-release",
             "finish-release", "create-hotfix", "finish-hotfix", "remove-path"}

\* _options.tmpl[command].validate.apply(this, params)
Validate(command, params) ==
  CASE command = "create-feature"      -> ValidateCreateFeature(params)
    [] command = "incorporate-feature" -> ValidateIncorporateFeature(params)
    [] command = "create-release"      -> ValidateCreateRelease(params)
    [] command = "finish-release"      -> ValidateFinishRelease(params)
    [] command = "create-hotfix"       -> ValidateCreateHotfix(params)
    [] command = "finish-hotfix"       -> ValidateFinishHotfix(params)
    [] command = "remove-path"         -> ValidateRemovePath(params)

-----------------------------------------------------------------------------
(* The command table: the command strings the templates render *)

\* One command of a rendered string.  andNext: the command is joined to the
\* next one by && (FALSE: by a newline, so the next one runs whatever happens).
Cmd(op, a, b, andNext) == [op |-> op, a |-> a, b |-> b, andNext |-> andNext]

CreateFeatureString(name) ==
  << Cmd("checkout -b", FEATURE \o Interp(name), DEVELOP, TRUE) >>

\* incorporate-feature without the deletion of the feature branch.
IncorporateFeatureKeepBranch(name) ==
  << Cmd("checkout", DEVELOP, Empty, TRUE),
     Cmd("merge", FEATURE \o Interp(name), Empty, TRUE) >>

IncorporateFeatureString(name) ==
  << Cmd("checkout", DEVELOP, Empty, TRUE),
     Cmd("merge", FEATURE \o Interp(name), Empty, TRUE),
     Cmd("branch -d", FEATURE \o Interp(name), Empty, TRUE) >>

CreateReleaseString(nextReleaseVersion, branchName) ==
  << Cmd("commit -a", Interp(nextReleaseVersion) \o RC1, Empty, TRUE),
     Cmd("tag", Interp(nextReleaseVersion) \o RC1, Empty, TRUE),
     Cmd("checkout -b", RELEASE \o Interp(branchName), DEVELOP, TRUE) >>

\* finish-release deleting the release branch once it is merged.
FinishReleaseDeleteBranch(nextReleaseVersion, branchName) ==
  << Cmd("commit -a", Interp(nextReleaseVersion), Empty, TRUE),
     Cmd("tag", Interp(nextReleaseVersion), Empty, TRUE),
     Cmd("checkout", DEVELOP, Empty, TRUE),
     Cmd("merge", RELEASE \o Interp(branchName), Empty, TRUE),
     Cmd("branch -d", RELEASE \o Interp(branchName), Empty, TRUE) >>

FinishReleaseString(nextReleaseVersion, branchName) ==
  << Cmd("commit -a", Interp(nextReleaseVersion), Empty, TRUE),
     Cmd("tag", Interp(nextReleaseVersion), Empty, TRUE),
     Cmd("checkout", DEVELOP, Empty, TRUE),
     Cmd("merge", RELEASE \o Interp(branchName), Empty, TRUE) >>

CreateHotfixString(nextReleaseVersion, release) ==
  << Cmd("checkout -b", HOTFIX \o Interp(nextReleaseVersion),
         RELEASE \o Interp(release), TRUE) >>

FinishHotfixString(version, branchName) ==
  << Cmd("commit -a", Interp(version), Empty, TRUE),
     Cmd("tag", Interp(version), Empty, TRUE),
     Cmd("checkout", RELEASE \o Interp(branchName), Empty, TRUE),
     Cmd("merge", HOTFIX \o Interp(version), Empty, TRUE),
     Cmd("branch -d", HOTFIX \o Interp(version), Empty, TRUE) >>

RemovePathString(path, branch) ==
  << Cmd("checkout", Interp(branch), Empty, FALSE),
     Cmd("filter-branch", Interp(path), Empty, TRUE),
     Cmd("update-ref -d", Empty, Empty, TRUE),
     Cmd("gc", Empty, Empty, TRUE) >>

\* create-release: level = ['minor', 'major'].indexOf(level) === -1 ? 'minor' : level
ReleaseLevel(level) ==
  IF level = <<"m", "a", "j", "o", "r">> THEN "major" ELSE "minor"

\* version.substr(0, version.lastIndexOf('.'))
BranchNameOf(version) == Substring0(version, LastIndexOf(version, <<".">>))

-----------------------------------------------------------------------------
(* State *)

\* The callers of run; Spec lets one of them run its calls one after another.
Callers == {"c1", "c2"}
SeqCallers == {"c1"}

\* What the repository and the manifest hold: taken when a run starts.
Snapshot == [branches |-> branches, tags |-> tags, pkgVersion |-> pkgVersion,
             HEAD |-> HEAD]

\* A caller with no run in flight.
NoCall(snapshot) ==
  [phase    |-> "idle",     \* idle, branch, tags, checkout, exec, done, crashed
   command  |-> "",
   args     |-> <<>>,       \* the arguments array run builds (strings only)
   cb       |-> FN,         \* what the validator holds as its callback
   verdict  |-> "",         \* what the validator handed to run: pass or a message
   tagsErr  |-> FALSE,      \* git.tags answered getLastVersion with an error
   cbCount  |-> 0,          \* how often the caller's callback was invoked
   result   |-> "none",     \* none, ok, error: what the callback was given
   error    |-> "",         \* the error the callback was given
   rendered |-> FALSE,      \* the action's template was called
   execd    |-> FALSE,      \* child_process.exec was called
   release  |-> Undefined,  \* getLastVersion's release argument
   version  |-> Undefined,  \* the version getLastVersion resolved
   next     |-> Undefined,  \* nextReleaseVersion (finish-hotfix: version)
   target   |-> Empty,      \* the branch git.checkout was asked for
   cmds     |-> <<>>,       \* the rendered command string
   pc       |-> 1,          \* the next command of cmds
   status   |-> 0,          \* the exit status of the last command
   okCmds   |-> {},         \* the commands that ran and succeeded
   rewrote  |-> {},         \* the branches whose history filter-branch rewrote
   pre      |-> snapshot]

InitVersions == { <<"0", ".", "1", ".", "0">>, <<"1", ".", "0", ".", "2">> }

NoQuery == [phase |-> "idle", release |-> Undefined, all |-> <<>>,
            result |-> Undefined]

\* The constructor call before new Gitf(options, cb) is made.
NoCtor(snapshot) ==
  [phase   |-> "new",      \* new, branch, checkoutBranch, ready, exited
   err     |-> Undefined,  \* what _isReady handed to the constructor's callback
   logged  |-> Undefined,  \* what console.log printed
   cbCount |-> 0,          \* how often the caller's cb was called
   cbErr   |-> Undefined,  \* what the caller's cb was called with
   pre     |-> snapshot]

\* The constructor call after _isReady found master and develop in place.
Constructed ==
  [NoCtor([branches |-> (MASTER :> {0}) @@ (DEVELOP :> {0}), tags |-> << >>,
           pkgVersion |-> pkgVersion, HEAD |-> DEVELOP])
     EXCEPT !.phase = "ready", !.cbCount = 1]

\* The repository of a project after the constructor ran: master and develop
\* exist, develop is checked out, there are no tags.
Init ==
  /\ branches = (MASTER :> {0}) @@ (DEVELOP :> {0})
  /\ tags = << >>
  /\ HEAD = DEVELOP
  /\ pkgVersion \in InitVersions
  /\ nextCommit = 1
  /\ calls = [p \in Callers |->
               NoCall([branches |-> (MASTER :> {0}) @@ (DEVELOP :> {0}),
                       tags |-> << >>, pkgVersion |-> pkgVersion, HEAD |-> DEVELOP])]
  /\ runs = 0
  /\ query = NoQuery
  /\ ctor = Constructed

TagNames == DOMAIN tags
BranchNames == DOMAIN branches

\* The caller's callback cb is invoked: cb(err) or cb(undefined, stdout).
Callback(c, result, error) ==
  [c EXCEPT !.phase = "done", !.cbCount = @ + 1, !.result = result, !.error = error]

\* An exception nobody catches: the call ends without its callback.
Throw(c) == [c EXCEPT !.phase = "crashed"]

\* exec(str, { cwd }, ...): the subprocess starts on the rendered string.
Exec(c, str) == [c EXCEPT !.phase = "exec", !.execd = TRUE, !.cmds = str, !.pc = 1,
                          !.status = 0]

\* this.getLastVersion(release, cb): git.tags is asked.
AskTags(c, release) == [c EXCEPT !.phase = "tags", !.release = release]

\* git.checkout(branch, cb) of simple-git is asked.
AskCheckout(c, branch) == [c EXCEPT !.phase = "checkout", !.target = branch]

\* _options.tmpl[command].template.apply(this, args) with the exec callback last:
\* the part of the template that runs before its first asynchronous call.
Template(c) ==
  LET r == [c EXCEPT !.rendered = TRUE]
      a == Param(c.args, 1)
      b == Param(c.args, 2)
  IN CASE c.command = "create-feature"      -> Exec(r, CreateFeatureString(a))
       [] c.command = "incorporate-feature" -> Exec(r, IncorporateFeatureString(a))
       [] c.command = "create-release"      -> AskTags(r, Undefined)
       [] c.command = "finish-release"      -> AskTags(r, a)
       [] c.command = "create-hotfix"       -> AskTags(r, a)
       [] c.command = "finish-hotfix"       ->
            AskCheckout([r EXCEPT !.next = a], HOTFIX \o a)
       [] c.command = "remove-path"         -> Exec(r, RemovePathString(a, b))

\* The callback of run without its return after cb(err).
ValidatedNoReturn(c, cb, err) ==
  LET v == [c EXCEPT !.verdict = err]
  IN IF cb # FN THEN Throw(c)
     ELSE IF err # "pass"
       THEN [Template(v) EXCEPT !.cbCount = @ + 1, !.result = "error", !.error = err]
       ELSE Template(v)

\* The callback run hands to the validator: (err) => { ... } of run.
Validated(c, cb, err) ==
  LET v == [c EXCEPT !.verdict = err]
  IN IF cb # FN THEN Throw(c)
     ELSE IF err # "pass" THEN Callback(v, "error", err)
     ELSE Template(v)

ResolvedPatchLevel(c, version) ==
  LET r    == [c EXCEPT !.version = version]
      next == SemverInc(version, "patch")
      n    == [r EXCEPT !.next = next]
  IN CASE c.command = "create-release" ->
            IF next = Null THEN Throw(n) ELSE AskCheckout(n, DEVELOP)
       [] c.command = "finish-release" ->
            IF next = Null THEN Throw(n)
            ELSE AskCheckout(n, RELEASE \o BranchNameOf(next))
       [] c.command = "create-hotfix" ->
            Exec(n, CreateHotfixString(next, Param(c.args, 1)))

\* The part of the template that follows getLastVersion's answer.
Resolved(c, version) ==
  LET r    == [c EXCEPT !.version = version]
      next == SemverInc(version,
                        IF c.command = "create-release"
                        THEN ReleaseLevel(Param(c.args, 1)) ELSE "patch")
      n    == [r EXCEPT !.next = next]
  IN CASE c.command = "create-release" ->
            IF next = Null THEN Throw(n) ELSE AskCheckout(n, DEVELOP)
       [] c.command = "finish-release" ->
            IF next = Null THEN Throw(n)
            ELSE AskCheckout(n, RELEASE \o BranchNameOf(next))
       [] c.command = "create-hotfix" ->
            Exec(n, CreateHotfixString(next, Param(c.args, 1)))

\* setPackageVersion(version): the version package.json holds afterwards.
SetPackageVersion(version) == version

\* The version the template writes into package.json after git.checkout.
WrittenVersion(c) == SetPackageVersion(c.next)

\* The part of the template that follows git.checkout's answer.
CheckedOut(c) ==
  CASE c.command = "create-release" ->
         Exec(c, CreateReleaseString(c.next, BranchNameOf(c.next)))
    [] c.command = "finish-release" ->
         Exec(c, FinishReleaseString(c.next, BranchNameOf(c.next)))
    [] c.command = "finish-hotfix" ->
         Exec(c, FinishHotfixString(c.next, BranchNameOf(c.next)))

-----------------------------------------------------------------------------
(* git, as the subprocess sees it *)

\* The outcome of one command of the rendered string in the current repository.
\* env: what the repository state above does not decide (a merge conflict on
\* diverged branches, nothing to commit, a failing filter-branch) goes well.
CmdSucceeds(cmd, env) ==
  CASE cmd.op = "checkout"    -> cmd.a \in BranchNames
    [] cmd.op = "checkout -b" -> cmd.a \notin BranchNames /\ cmd.b \in BranchNames
    [] cmd.op = "commit -a"   -> env
    [] cmd.op = "tag"         -> cmd.a \notin TagNames
    [] cmd.op = "merge"       ->
         /\ cmd.a \in BranchNames
         /\ \/ branches[cmd.a] \subseteq branches[HEAD]
            \/ branches[HEAD] \subseteq branches[cmd.a]
            \/ env
    [] cmd.op = "branch -d"   ->
         /\ cmd.a \in BranchNames
         /\ cmd.a # HEAD
         /\ branches[cmd.a] \subseteq branches[HEAD]
    [] cmd.op = "filter-branch" -> env
    [] OTHER -> TRUE

\* Whether env has a say in the outcome of cmd.
EnvDecides(cmd) ==
  \/ cmd.op \in {"commit -a", "filter-branch"}
  \/ /\ cmd.op = "merge"
     /\ cmd.a \in BranchNames
     /\ ~(branches[cmd.a] \subseteq branches[HEAD])
     /\ ~(branches[HEAD] \subseteq branches[cmd.a])

BranchesAfter(cmd) ==
  CASE cmd.op = "checkout -b" -> (cmd.a :> branches[cmd.b]) @@ branches
    [] cmd.op = "commit -a"   -> [branches EXCEPT ![HEAD] = @ \cup {nextCommit}]
    [] cmd.op = "merge"       -> [branches EXCEPT ![HEAD] = @ \cup branches[cmd.a]]
    [] cmd.op = "branch -d"   -> [b \in BranchNames \ {cmd.a} |-> branches[b]]
    [] OTHER -> branches

HeadAfter(cmd) ==
  IF cmd.op \in {"checkout", "checkout -b"} THEN cmd.a ELSE HEAD

TagsAfter(cmd) ==
  IF cmd.op = "tag" THEN (cmd.a :> Max(branches[HEAD])) @@ tags ELSE tags

\* The command the shell runs after cmds[i] failed: the first one after the
\* next newline, since a failed command ends its && list.
RECURSIVE AfterFailure(_, _)
AfterFailure(cmds, i) ==
  IF i > Len(cmds) THEN i
  ELSE IF cmds[i].andNext THEN AfterFailure(cmds, i + 1)
  ELSE i + 1

-----------------------------------------------------------------------------
(* Actions *)

\* The argument lists a caller passes to run, its callback aside.
Name == <<"x">>
Path == <<"d", "i", "s", "t">>
NoSuchBranch == <<"n", "o", "n", "e">>
NoSuchLine == <<"0", ".", "9">>
NoSuchHotfix == <<"0", ".", "9", ".", "1">>

Suffixes(prefix) ==
  {SubSeq(b, Len(prefix) + 1, Len(b)) : b \in {x \in BranchNames : HasPrefix(x, prefix)}}

Given(command) ==
  CASE command \in {"create-feature", "incorporate-feature"} ->
         {<<>>, <<Name>>}
    [] command = "create-release" ->
         {<<>>, << <<"m", "i", "n", "o", "r">> >>, << <<"m", "a", "j", "o", "r">> >>,
          << <<"p", "a", "t", "c", "h">> >>}
    [] command \in {"finish-release", "create-hotfix"} ->
         {<<>>, <<NoSuchLine>>} \cup {<<l>> : l \in Suffixes(RELEASE)}
    [] command = "finish-hotfix" ->
         {<<>>, <<NoSuchHotfix>>} \cup {<<v>> : v \in Suffixes(HOTFIX)}
    [] command = "remove-path" ->
         {<<>>, <<Path>>} \cup {<<Path, b>> : b \in {MASTER, DEVELOP, NoSuchBranch}}

\* run(command, ...given, cb): builds args, calls the validator, and on its
\* verdict the template, up to the first asynchronous call.
Run(p, command, given) ==
  LET args   == IF Len(given) = 0 THEN <<Empty>> ELSE given
      asked  == Validate(command, args \o <<FN>>)
      c      == [NoCall(Snapshot) EXCEPT !.command = command, !.args = args,
                                        !.cb = asked.cb]
  IN /\ calls[p].phase \in {"idle", "done", "crashed"}
     /\ runs < MaxRuns
     /\ runs' = runs + 1
     /\ calls' = [calls EXCEPT ![p] =
                    IF asked.verdict = "branch"
                    THEN [c EXCEPT !.phase = "branch", !.target = asked.branch]
                    ELSE Validated(c, asked.cb, asked.verdict)]
     /\ UNCHANGED <<branches, tags, HEAD, pkgVersion, nextCommit, query, ctor>>

\* git.branch((err, resp) => ...) of a validator answers.
BranchResp(p) ==
  LET c == calls[p]
  IN /\ c.phase = "branch"
     /\ \E err \in BOOLEAN :
          calls' = [calls EXCEPT ![p] =
                      Validated(c, c.cb,
                                IF err THEN "git error"
                                ELSE IF c.target \notin BranchNames
                                  THEN "branch do not exist"
                                  ELSE "pass")]
     /\ UNCHANGED <<branches, tags, HEAD, pkgVersion, nextCommit, runs, query, ctor>>

\* git.tags((err, resp) => ...) of getLastVersion answers, resp.all in some order.
TagsResp(p) ==
  LET c == calls[p]
  IN /\ c.phase = "tags"
     /\ \/ calls' = [calls EXCEPT ![p] =
                         Resolved([c EXCEPT !.tagsErr = TRUE], Undefined)]
        \/ \E all \in Orders(TagNames) :
             calls' = [calls EXCEPT ![p] =
                         Resolved(c, GetLastVersion(all, c.release, pkgVersion))]
     /\ UNCHANGED <<branches, tags, HEAD, pkgVersion, nextCommit, runs, query, ctor>>

\* git.checkout(branch, () => ...) of a template answers; its error is ignored.
CheckoutResp(p) ==
  LET c == calls[p]
  IN /\ c.phase = "checkout"
     /\ HEAD' = IF c.target \in BranchNames THEN c.target ELSE HEAD
     /\ pkgVersion' = WrittenVersion(c)
     /\ calls' = [calls EXCEPT ![p] = CheckedOut(c)]
     /\ UNCHANGED <<branches, tags, nextCommit, runs, query, ctor>>

\* The shell runs the next command of the rendered string.
ExecStep(p) ==
  LET c   == calls[p]
      cmd == c.cmds[c.pc]
  IN /\ c.phase = "exec"
     /\ c.pc <= Len(c.cmds)
     /\ \E env \in (IF EnvDecides(cmd) THEN BOOLEAN ELSE {TRUE}) :
          IF CmdSucceeds(cmd, env)
          THEN /\ branches' = BranchesAfter(cmd)
               /\ tags' = TagsAfter(cmd)
               /\ HEAD' = HeadAfter(cmd)
               /\ nextCommit' = IF cmd.op = "commit -a" THEN nextCommit + 1
                                ELSE nextCommit
               /\ calls' = [calls EXCEPT ![p] =
                    [c EXCEPT !.pc = @ + 1, !.status = 0,
                              !.okCmds = @ \cup {c.pc},
                              !.rewrote = IF cmd.op = "filter-branch"
                                          THEN @ \cup {HEAD} ELSE @]]
          ELSE /\ calls' = [calls EXCEPT ![p] =
                    [c EXCEPT !.pc = AfterFailure(c.cmds, c.pc), !.status = 1]]
               /\ UNCHANGED <<branches, tags, HEAD, nextCommit>>
     /\ UNCHANGED <<pkgVersion, runs, query, ctor>>

\* The subprocess exits: function (error, stdout, stderr) of run.
ExecExit(p) ==
  LET c == calls[p]
  IN /\ c.phase = "exec"
     /\ c.pc > Len(c.cmds)
     /\ calls' = [calls EXCEPT ![p] =
                    IF c.status # 0 THEN Callback(c, "error", "exec error")
                    ELSE Callback(c, "ok", "")]
     /\ UNCHANGED <<branches, tags, HEAD, pkgVersion, nextCommit, runs, query, ctor>>

Next ==
  \E p \in SeqCallers :
    \/ \E command \in Commands : \E given \in Given(command) : Run(p, command, given)
    \/ BranchResp(p)
    \/ TagsResp(p)
    \/ CheckoutResp(p)
    \/ ExecStep(p)
    \/ ExecExit(p)

Spec == Init /\ [][Next]_vars

-----------------------------------------------------------------------------
(* getLastVersion called directly, on any tag history *)

\* The tags a history is drawn from: releases, release candidates, a two-digit
\* minor, and two tags that are no version.
TagUniverse ==
  { <<"1", ".", "2", ".", "0">>,
    <<"1", ".", "3", ".", "0", "-", "r", "c", ".", "1">>,
    <<"1", ".", "3", ".", "0">>,
    <<"1", ".", "2", ".", "1">>,
    <<"1", ".", "2", ".", "2", "-", "r", "c", ".", "2">>,
    <<"1", ".", "1", "0", ".", "0">>,
    <<"0", ".", "9", ".", "9">>,
    <<"x">>,
    <<"1", ".", "2", ".", "x">> }

\* The release lines getLastVersion is asked for; undefined: no filter.
ReleaseLines ==
  { Undefined, <<"1", ".", "2">>, <<"1", ".", "3">>, <<"1", ".", "1", "0">>,
    <<"2", ".", "0">> }

InitResolver ==
  /\ branches = (MASTER :> {0}) @@ (DEVELOP :> {0})
  /\ \E T \in SUBSET TagUniverse :
       /\ Cardinality(T) <= MaxTagList
       /\ tags = [t \in T |-> 0]
  /\ HEAD = DEVELOP
  /\ pkgVersion \in InitVersions
  /\ nextCommit = 1
  /\ calls = [p \in Callers |->
               NoCall([branches |-> (MASTER :> {0}) @@ (DEVELOP :> {0}),
                       tags |-> << >>, pkgVersion |-> pkgVersion, HEAD |-> DEVELOP])]
  /\ runs = 0
  /\ query = NoQuery
  /\ ctor = Constructed

\* gitf.getLastVersion(release, cb): git.tags is asked.
QueryStart(release) ==
  /\ query.phase \in {"idle", "done"}
  /\ query' = [phase |-> "tags", release |-> release, all |-> <<>>,
               result |-> Undefined]
  /\ UNCHANGED <<branches, tags, HEAD, pkgVersion, nextCommit, calls, runs, ctor>>

\* git.tags answers resp.all in some order: cb(lastVersion).
QueryResp ==
  /\ query.phase = "tags"
  /\ \E all \in Orders(TagNames) :
       query' = [query EXCEPT !.phase = "done", !.all = all,
                              !.result = GetLastVersion(all, query.release, pkgVersion)]
  /\ UNCHANGED <<branches, tags, HEAD, pkgVersion, nextCommit, calls, runs, ctor>>

\* git.tags fails: cb() without a version.
QueryFail ==
  /\ query.phase = "tags"
  /\ query' = [query EXCEPT !.phase = "failed", !.result = Undefined]
  /\ UNCHANGED <<branches, tags, HEAD, pkgVersion, nextCommit, calls, runs, ctor>>

NextResolver ==
  \/ \E release \in ReleaseLines : QueryStart(release)
  \/ QueryResp
  \/ QueryFail

SpecResolver == InitResolver /\ [][NextResolver]_vars

-----------------------------------------------------------------------------
(* What the claims speak of *)

\* A tag without its -rc.N suffix.
StripRc(t) ==
  LET i == IndexOf(t, <<"-", "r", "c", ".">>)
  IN IF i = -1 THEN t ELSE Substring0(t, i)

\* The release line major.minor of a valid version.
LineOf(v) == LET x == SemverParse(v) IN ToStr(x.major) \o <<".">> \o ToStr(x.minor)

\* The tags of T that remain candidates under the release-line filter.
Remaining(T, release) ==
  {t \in T : release = Undefined
             \/ (SemverValid(StripRc(t)) /\ LineOf(StripRc(t)) = release)}

\* The rc-stripped candidates.
Candidates(T, release) == {StripRc(t) : t \in Remaining(T, release)}

\* v is a greatest version of the set V under semver precedence.
IsGreatest(v, V) == v \in V /\ \A w \in V : ~SemverGt(w, v)

ExampleTags ==
  { <<"1", ".", "2", ".", "0">>,
    <<"1", ".", "3", ".", "0", "-", "r", "c", ".", "1">>,
    <<"1", ".", "3", ".", "0">> }

\* C2: on a non-empty set of valid-semver tags, in whatever order git lists
\* them, getLastVersion resolves to the greatest rc-stripped version among the
\* tags of the release line asked for (among all tags without a filter), when
\* at least one tag remains; {1.2.0, 1.3.0-rc.1, 1.3.0} gives 1.3.0 without a
\* filter and 1.2.0 for line 1.2.
C2_GreatestStrippedTag ==
  ( /\ query.phase = "done"
    /\ \A t \in TagNames : SemverValid(t)
    /\ Remaining(TagNames, query.release) # {} )
  => /\ IsGreatest(query.result, Candidates(TagNames, query.release))
     /\ (TagNames = ExampleTags /\ query.release = Undefined)
          => query.result = <<"1", ".", "3", ".", "0">>
     /\ (TagNames = ExampleTags /\ query.release = <<"1", ".", "2">>)
          => query.result = <<"1", ".", "2", ".", "0">>

C2_Witness ==
  /\ query.phase = "done"
  /\ TagNames = ExampleTags
  /\ query.release = <<"1", ".", "2">>
  /\ query.result = <<"1", ".", "2", ".", "0">>

\* C3: when no tag remains as a candidate (no tags at all, or a release-line
\* filter that no tag matches), getLastVersion resolves to the version
\* package.json holds.
C3_FallbackToManifest ==
  (query.phase = "done" /\ Remaining(TagNames, query.release) = {})
  => query.result = pkgVersion

-----------------------------------------------------------------------------
(* The workflow claims: what a run leaves behind *)

\* The run of caller p is over and was command(args).
Ran(p, command) ==
  /\ calls[p].phase \in {"done", "crashed"}
  /\ calls[p].command = command

Succeeded(p, command) == Ran(p, command) /\ calls[p].result = "ok"

\* The repository and the manifest are as they were when the run started.
Untouched(c) ==
  /\ branches = c.pre.branches
  /\ tags = c.pre.tags
  /\ pkgVersion = c.pre.pkgVersion
  /\ HEAD = c.pre.HEAD

\* C1: when an action's validator reports a failure message, run hands that
\* error to the caller's callback, once; the template is never called, no
\* subprocess is executed, and the manifest version, the branches and the tags
\* are unchanged.  finish-hotfix(V) without a branch hotfix-V ends so, before
\* any manifest write.  A validator that throws instead of reporting changes
\* nothing either.
C1_ValidationFailure ==
  \A p \in Callers :
    LET c == calls[p]
    IN /\ c.verdict \notin {"", "pass"}
            => /\ c.phase = "done"
               /\ c.cbCount = 1
               /\ c.result = "error"
               /\ c.error = c.verdict
               /\ ~c.rendered
               /\ ~c.execd
               /\ c.cmds = <<>>
               /\ Untouched(c)
       /\ (c.phase = "crashed" /\ ~c.rendered) => (~c.execd /\ Untouched(c))
       /\ ( /\ Ran(p, "finish-hotfix")
            /\ c.cb = FN
            /\ (HOTFIX \o c.args[1]) \notin DOMAIN c.pre.branches )
            => /\ c.verdict \notin {"", "pass"}
               /\ pkgVersion = c.pre.pkgVersion

C1_Witness ==
  \E p \in Callers :
    /\ Ran(p, "finish-hotfix")
    /\ calls[p].args = <<NoSuchHotfix>>
    /\ calls[p].verdict = "branch do not exist"
    /\ calls[p].result = "error"

\* C4: from a manifest version v, no tags and a develop branch, a successful
\* create-release(level) leaves the manifest at inc(v, level)-rc.1, a tag
\* inc(v, level)-rc.1, and a branch release-{major.minor of inc(v, level)}
\* created from develop and checked out.
C4_CreateReleaseOutcome ==
  \A p \in Callers :
    LET c      == calls[p]
        next   == SemverInc(c.pre.pkgVersion, ReleaseLevel(c.args[1]))
        branch == RELEASE \o LineOf(next)
    IN ( /\ Succeeded(p, "create-release")
         /\ DOMAIN c.pre.tags = {} )
       => /\ pkgVersion = next \o RC1
          /\ (next \o RC1) \in TagNames
          /\ branch \in BranchNames
          /\ HEAD = branch
          /\ branches[branch] = branches[DEVELOP]

\* C5: a run with a known action and a function as its last argument ends with
\* its callback invoked exactly once, with an error or with success.
C5_CallbackExactlyOnce ==
  \A p \in Callers :
    calls[p].phase \in {"done", "crashed"} => calls[p].cbCount = 1

\* C6: create-feature(n), while feature-n does not exist, creates feature-n
\* from develop and checks it out; incorporate-feature(n), while feature-n
\* exists, passes validation, ends on develop with feature-n merged into
\* develop, and leaves no branch feature-n.
C6_FeatureRoundTrip ==
  \A p \in Callers :
    LET c == calls[p]
        f == FEATURE \o c.args[1]
    IN /\ ( /\ Ran(p, "create-feature")
            /\ c.cb = FN
            /\ f \notin DOMAIN c.pre.branches )
            => /\ c.result = "ok"
               /\ f \in BranchNames
               /\ HEAD = f
               /\ branches[f] = c.pre.branches[DEVELOP]
       /\ ( /\ Ran(p, "incorporate-feature")
            /\ c.cb = FN
            /\ c.error # "git error"
            /\ f \in DOMAIN c.pre.branches )
            => /\ c.verdict = "pass"
               /\ c.result = "ok"
               /\ HEAD = DEVELOP
               /\ f \notin BranchNames
               /\ c.pre.branches[f] \subseteq branches[DEVELOP]

C6_Witness ==
  \E p \in Callers :
    /\ Succeeded(p, "incorporate-feature")
    /\ calls[p].args = <<Name>>
    /\ (FEATURE \o Name) \in DOMAIN calls[p].pre.branches
    /\ (FEATURE \o Name) \notin BranchNames
    /\ HEAD = DEVELOP

\* C7: remove-path(p, b) with two strings passes validation whether or not b
\* exists; when b does not exist the checkout fails, the run ends with an
\* execution error, and no history is rewritten, no ref deleted and no
\* garbage collected.
C7_RemovePathUnknownBranch ==
  \A p \in Callers :
    LET c == calls[p]
    IN ( /\ Ran(p, "remove-path")
         /\ Len(c.args) = 2
         /\ c.args[2] \notin DOMAIN c.pre.branches )
       => /\ c.verdict = "pass"
          /\ c.result = "error"
          /\ c.error = "exec error"
          /\ c.rewrote = {}
          /\ c.okCmds = {}

\* The greatest rc-stripped tag of release line L among the tags T.
LatestOfLine(T, L) ==
  CHOOSE v \in Candidates(T, L) : IsGreatest(v, Candidates(T, L))

\* C8: a successful finish-release(L) leaves the branch release-L in place;
\* create-hotfix(L), while release-L exists, passes validation, and with the
\* tags listed it creates hotfix-{n} from release-L, n the patch increment of
\* the greatest rc-stripped tag of line L.  From 0.1.0 and no tags, after
\* create-release and finish-release(0.2), the branch is hotfix-0.2.2.
C8_HotfixAfterRelease ==
  \A p \in Callers :
    LET c == calls[p]
        L == c.args[1]
        n == SemverInc(LatestOfLine(DOMAIN c.pre.tags, L), "patch")
        h == HOTFIX \o n
    IN /\ Succeeded(p, "finish-release") => (RELEASE \o L) \in BranchNames
       /\ ( /\ Ran(p, "create-hotfix")
            /\ c.cb = FN
            /\ c.error # "git error"
            /\ (RELEASE \o L) \in DOMAIN c.pre.branches )
            => /\ c.verdict = "pass"
               /\ (c.result = "ok" /\ ~c.tagsErr /\ Candidates(DOMAIN c.pre.tags, L) # {})
                    => /\ h \in BranchNames
                       /\ h \notin DOMAIN c.pre.branches
                       /\ HEAD = h
                       /\ branches[h] = c.pre.branches[RELEASE \o L]
                       /\ ( DOMAIN c.pre.tags =
                              { <<"0", ".", "2", ".", "0", "-", "r", "c", ".", "1">>,
                                <<"0", ".", "2", ".", "1">> }
                            => h = HOTFIX \o <<"0", ".", "2", ".", "2">> )

C8_Witness ==
  \E p \in Callers :
    /\ Succeeded(p, "create-hotfix")
    /\ calls[p].args = << <<"0", ".", "2">> >>
    /\ DOMAIN calls[p].pre.tags = { <<"0", ".", "2", ".", "0", "-", "r", "c", ".", "1">>,
                                    <<"0", ".", "2", ".", "1">> }
    /\ (HOTFIX \o <<"0", ".", "2", ".", "2">>) \in BranchNames
    /\ HEAD = HOTFIX \o <<"0", ".", "2", ".", "2">>

\* C9: after a successful finish-hotfix(V) the manifest version is V, a tag V
\* exists, hotfix-V is merged into release-{major.minor of V} and into
\* develop, and the branch hotfix-V is gone.
C9_FinishHotfixOutcome ==
  \A p \in Callers :
    LET c == calls[p]
        V == c.args[1]
    IN Succeeded(p, "finish-hotfix")
       => /\ pkgVersion = V
          /\ V \in TagNames
          /\ tags[V] \in branches[RELEASE \o LineOf(V)]
          /\ c.pre.branches[HOTFIX \o V] \subseteq branches[RELEASE \o LineOf(V)]
          /\ tags[V] \in branches[DEVELOP]
          /\ (HOTFIX \o V) \notin BranchNames

\* C10: after a successful finish-release(L) the manifest and a new tag hold
\* the patch increment of line L's latest version, and release-L is merged
\* into develop and into master.
C10_FinishReleaseOutcome ==
  \A p \in Callers :
    LET c == calls[p]
        L == c.args[1]
        n == SemverInc(LatestOfLine(DOMAIN c.pre.tags, L), "patch")
    IN Succeeded(p, "finish-release")
       => /\ pkgVersion = n
          /\ n \in TagNames
          /\ n \notin DOMAIN c.pre.tags
          /\ branches[RELEASE \o L] \subseteq branches[DEVELOP]
          /\ branches[RELEASE \o L] \subseteq branches[MASTER]


-----------------------------------------------------------------------------
(* Tags that are no versions; the name create-feature needs *)

\* The tag list without the tags that are no valid semver.
RECURSIVE ValidOnly(_)
ValidOnly(all) ==
  IF Len(all) = 0 THEN <<>>
  ELSE IF SemverValid(Head(all)) THEN <<Head(all)>> \o ValidOnly(Tail(all))
  ELSE ValidOnly(Tail(all))

\* C12: tags that are no valid semver are ignored: on a tag list, in any
\* order, with at least one valid tag that passes the filter, getLastVersion
\* gives what it gives on the list without the invalid tags, and what it
\* gives is a valid semver string.
C12_InvalidTagsIgnored ==
  ( /\ query.phase = "done"
    /\ \E t \in Remaining(TagNames, query.release) : SemverValid(t) )
  => /\ query.result = GetLastVersion(ValidOnly(query.all), query.release, pkgVersion)
     /\ SemverValid(query.result)

\* C13: create-feature needs a non-empty name: without a name argument (run
\* pads the empty string in) the callback gets a validation error, no command
\* is executed, and no branch 'feature-' ever exists.
C13_FeatureNameRequired ==
  /\ FEATURE \notin BranchNames
  /\ \A p \in Callers :
       LET c == calls[p]
       IN (Ran(p, "create-feature") /\ c.args = <<Empty>>)
          => /\ c.result = "error"
             /\ c.verdict \notin {"", "pass"}
             /\ ~c.execd

-----------------------------------------------------------------------------
(* Versions the tool hands out *)

\* C15: the version V create-hotfix gave a hotfix branch is not used as a tag
\* by another action: while hotfix-V exists, only finish-hotfix(V) creates the
\* tag V.
C15_HotfixVersionReserved ==
  [][ \A V \in TagNames' \ TagNames :
        (HOTFIX \o V) \in BranchNames
        => \E p \in Callers :
             /\ calls[p].command = "finish-hotfix"
             /\ calls[p].phase = "exec"
             /\ Param(calls[p].args, 1) = V ]_vars

\* C16: in a repository whose tags and release branches this tool created,
\* the next version create-release computes is greater than every rc-stripped
\* tag there is, and neither its rc tag nor its release-{major.minor} branch
\* exists yet.
C16_NextReleaseIsNew ==
  \A p \in Callers :
    LET c == calls[p]
    IN (c.command = "create-release" /\ SemverValid(c.next))
       => /\ \A t \in DOMAIN c.pre.tags :
               SemverValid(StripRc(t)) => SemverGt(c.next, StripRc(t))
          /\ (c.next \o RC1) \notin DOMAIN c.pre.tags
          /\ (RELEASE \o BranchNameOf(c.next)) \notin DOMAIN c.pre.branches

\* A create-release that found tags and a release branch in place and added
\* its own rc tag and release branch to them.
C16_Witness ==
  \E p \in Callers :
    LET c == calls[p]
    IN /\ Succeeded(p, "create-release")
       /\ DOMAIN c.pre.tags # {}
       /\ \E b \in DOMAIN c.pre.branches : HasPrefix(b, RELEASE)
       /\ (c.next \o RC1) \in TagNames
       /\ (RELEASE \o BranchNameOf(c.next)) \in BranchNames

-----------------------------------------------------------------------------
(* Construction: new Gitf(options, cb) and _isReady *)

\* _options.msg.missingMaster
MissingMaster == <<"missingMaster">>

\* The error a failing git command hands to its callback.
GitError == <<"error">>

\* The repositories a Gitf is constructed on: no branch at all (no commit
\* yet), master alone, master and develop, develop alone.
Repositories ==
  { << >>,
    MASTER :> {0},
    (MASTER :> {0}) @@ (DEVELOP :> {0}),
    DEVELOP :> {0} }

InitCtor ==
  /\ branches \in Repositories
  /\ tags = << >>
  /\ HEAD \in (IF DOMAIN branches = {} THEN {MASTER} ELSE DOMAIN branches)
  /\ pkgVersion \in InitVersions
  /\ nextCommit = 1
  /\ calls = [p \in Callers |-> NoCall(Snapshot)]
  /\ runs = 0
  /\ query = NoQuery
  /\ ctor = NoCtor(Snapshot)

\* The callback the constructor hands to _isReady:
\* (err) => { if (err) { console.log(err); process.exit() } ...; cb(err) }.
\* process.exit() ends the process: the statements after it are not run.
ConstructorCallback(k, err) ==
  IF Truthy(err)
  THEN [k EXCEPT !.phase = "exited", !.err = err, !.logged = err]
  ELSE [k EXCEPT !.phase = "ready", !.err = err,
                 !.cbCount = @ + 1, !.cbErr = err]

\* The callback _isReady hands to git.branch, called with (err, resp).
IsReady(k, err, names) ==
  IF Truthy(err) THEN ConstructorCallback(k, err)
  ELSE IF MASTER \notin names THEN ConstructorCallback(k, MissingMaster)
  ELSE IF DEVELOP \notin names THEN [k EXCEPT !.phase = "checkoutBranch"]
  ELSE ConstructorCallback(k, Undefined)

\* new Gitf(options, cb): _isReady asks git.branch.
Construct ==
  /\ ctor.phase = "new"
  /\ ctor' = [ctor EXCEPT !.phase = "branch"]
  /\ UNCHANGED <<branches, tags, HEAD, pkgVersion, nextCommit, calls, runs, query>>

\* git.branch answers _isReady, with an error or with the branches.
IsReadyResp ==
  /\ ctor.phase = "branch"
  /\ \E err \in {Null, GitError} : ctor' = IsReady(ctor, err, BranchNames)
  /\ UNCHANGED <<branches, tags, HEAD, pkgVersion, nextCommit, calls, runs, query>>

\* git.checkoutBranch('develop', 'master', cb) answers: develop is created
\* from master and checked out, or the command fails.
CheckoutBranchResp ==
  /\ ctor.phase = "checkoutBranch"
  /\ \/ /\ branches' = branches @@ (DEVELOP :> branches[MASTER])
        /\ HEAD' = DEVELOP
        /\ ctor' = ConstructorCallback(ctor, Null)
     \/ /\ ctor' = ConstructorCallback(ctor, GitError)
        /\ UNCHANGED <<branches, HEAD>>
  /\ UNCHANGED <<tags, pkgVersion, nextCommit, calls, runs, query>>

\* Construction, and the runs made on the instance once it is ready.
NextCtor ==
  \/ Construct
  \/ IsReadyResp
  \/ CheckoutBranchResp
  \/ (ctor.phase = "ready" /\ Next)

SpecCtor == InitCtor /\ [][NextCtor]_vars

\* The constructor call has come to its end.
Settled == ctor.phase \in {"ready", "exited"}

\* C11: the outcome of initialisation is always reported to the constructor
\* callback of the programmatic caller: with no error only when master and
\* develop both exist afterwards (develop created from master when it was
\* absent), and with the precondition error, no branch created, when master
\* is missing or the branch query fails.
C11_InitialisationReported ==
  /\ Settled => ctor.cbCount = 1
  /\ (ctor.cbCount = 1 /\ ~Truthy(ctor.cbErr))
       => /\ {MASTER, DEVELOP} \subseteq BranchNames
          /\ (DEVELOP \notin DOMAIN ctor.pre.branches /\ runs = 0)
               => branches[DEVELOP] = branches[MASTER]
  /\ (Settled /\ MASTER \notin DOMAIN ctor.pre.branches) => Truthy(ctor.err)
  /\ (Settled /\ Truthy(ctor.err))
       => /\ ctor.cbCount = 1
          /\ ctor.cbErr = ctor.err
          /\ branches = ctor.pre.branches

-----------------------------------------------------------------------------
(* Two callers on one working directory *)

\* Both callers make run() calls, MaxConcRuns in all; a caller makes its next
\* call after its own callback fired, and nothing orders the calls of the two
\* callers.
NextConc ==
  \E p \in Callers :
    \/ /\ runs < MaxConcRuns
       /\ \E command \in Commands : \E given \in Given(command) :
            Run(p, command, given)
    \/ BranchResp(p)
    \/ TagsResp(p)
    \/ CheckoutResp(p)
    \/ ExecStep(p)
    \/ ExecExit(p)

SpecConc == Init /\ [][NextConc]_vars

\* A run() call whose callback has not fired and that has not thrown.
InFlight(c) == c.phase \in {"branch", "tags", "checkout", "exec"}

\* C14: when a second run is issued before the callback of the first fired,
\* the steps of the two actions (branch or tag query, manifest write,
\* subprocess execution) do not interleave: no action takes a step while the
\* other is in flight.
C14_StepsDoNotInterleave ==
  [][ \A p, q \in Callers :
        (p # q /\ InFlight(calls[p]) /\ calls[p]' # calls[p])
        => ~InFlight(calls[q]) ]_vars

====
